---- MODULE Spec2Model ----
(***************************************************************************)
(* A model of the bf1942-analytics SQL job orchestration engine:           *)
(*   - migrations.py : apply_sql_directory and its per-file transaction    *)
(*   - main.py       : on_startup / on_shutdown                            *)
(*   - scheduler.py  : SchedulerManager                                    *)
(*   - jobs.py       : run_sql_refresh_jobs                                *)
(*   - sql_jobs.py   : load_sql_jobs, execute_sql_job, record_job_result   *)
(*                                                                         *)
(* File names are natural numbers; their numeric order stands for the      *)
(* lexicographic order of the names.  The database is PostgreSQL seen      *)
(* through asyncpg: a statement outside a transaction commits at once, a   *)
(* transaction block commits on normal exit and rolls back when an         *)
(* exception leaves it.  Statements are ordinary DDL/DML (no transaction   *)
(* control inside a migration file); the only modelled faults are failing  *)
(* statements, not a lost connection.                                      *)
(***************************************************************************)
EXTENDS Integers, Sequences, FiniteSets, TLC

\* ------------------------------------------------------------------ bounds
MaxFiles == 3       \* .sql files a directory can hold
MaxStmts == 2       \* statements one migration file can split into
MaxCommits == 2     \* committed-effect counters saturate here
MaxJobFiles == 2    \* .sql files the job directory can hold
MaxLines == 3       \* lines of a text handed to a parser
MaxAuditRows == 4   \* rows the audit table can take

SqlNames == 1..MaxFiles
\* Entry 0 is a directory entry without the .sql suffix.
DirNames == 0..MaxFiles
JobNames == 1..MaxJobFiles
RefreshId == "refresh_materialized_views"
MaintIds == {"retention_maintenance", "partition_maintenance"}
TriggerIds == {RefreshId} \cup MaintIds

\* add_job is called without max_instances and the scheduler is built without
\* job_defaults: the scheduler library's default of one running instance per
\* job id applies.
MaxInstances == 1

VARIABLES
  \* the migration directory (never written by the program)
  dirExists, dirEntries, fileStmts,
  \* committed state of the store
  tableExists, tracked, effects,
  \* the applier connection's open transaction
  inTx, txStmts, txRow,
  \* apply_sql_directory: position and locals
  mpc, files, fidx, sidx, connHeld, applyConnection, applyResult,
  \* what the current run has done so far, and how the previous run ended
  executed, attempted, skipped, appliedInRun, failedFile,
  prevFailed, prevResult, dbAtStart,
  \* the process: on_startup, SchedulerManager, on_shutdown
  sstate, spos, poolOpen, mgrCreated, stateMgr, jobs, schedRunning,
  inflight, fired,
  \* SchedulerConfig.retention_procedure / partition_procedure
  procs,
  \* the invocation of each trigger id: position, connection, the value
  \* quote_ident returned, the statements it issued, how it ended
  invPc, invConn, invConnection, invQuoted, invStmts, invResult,
  \* calls of SchedulerManager.start / shutdown: the last one, whether it
  \* raised, a bit flipped by every call; firings skipped; the ids in flight
  \* at the last shutdown
  lastCall, callRaised, calls, missed, atShutdown,
  \* the job directory (never written by the program) and the audit table
  jobDirExists, jobEntries, jobMeta, auditRows,
  \* what a direct call of load_sql_jobs returned (None before the call)
  loadResult,
  \* run_sql_refresh_jobs: position and locals
  bpc, definitions, didx, bconn, batchConnection, curResult, batchResult,
  \* what the current invocation has done so far
  results, recFailedAt, auditAtStart, lastOutcome, execRaised,
  \* a direct call of _parse_metadata: the lines given (each a sequence of
  \* characters) and what it returned (None before the call)
  metaLines, metaResult,
  \* _split_sql_statements: the lines of its input, and what it returned
  sqlLines, splitResult,
  \* execute_sql_job called by itself: its arguments and what it returned
  execArgs, execReturn,
  \* two concurrent apply_sql_directory runs: the locals and the open
  \* transaction of each
  runs

dirVars == <<dirExists, dirEntries, fileStmts>>
dbVars == <<tableExists, tracked, effects>>
txVars == <<inTx, txStmts, txRow>>
migVars == <<mpc, files, fidx, sidx, connHeld, applyConnection, applyResult>>
histVars == <<executed, attempted, skipped, appliedInRun, failedFile,
              prevFailed, prevResult, dbAtStart>>
invVars == <<invPc, invConn, invConnection, invQuoted, invStmts, invResult>>
apiVars == <<lastCall, callRaised, calls, missed, atShutdown>>
schedVars == <<mgrCreated, stateMgr, jobs, schedRunning, inflight, fired,
               procs, invVars, apiVars>>
procVars == <<sstate, spos, poolOpen>>
jobDirVars == <<jobDirExists, jobEntries, jobMeta, loadResult>>
batchVars == <<bpc, definitions, didx, bconn, batchConnection, curResult, batchResult>>
batchHist == <<results, recFailedAt, auditAtStart, lastOutcome, execRaised>>
metaVars == <<metaLines, metaResult>>
splitVars == <<sqlLines, splitResult>>
execVars == <<execArgs, execReturn>>
raceVars == <<runs>>
sideVars == <<metaVars, splitVars, execVars, raceVars>>
jobVars == <<jobDirVars, auditRows, batchVars, batchHist, sideVars>>
vars == <<dirVars, dbVars, txVars, migVars, histVars, schedVars, procVars,
          jobVars>>

\* ----------------------------------------------------------------- helpers
\* DatabaseConfig.max_size: the connections the pool can hold. Connection 0
\* stands for "none".
PoolMaxSize == 10
Connections == 1..PoolMaxSize

\* The connections checked out of the pool.
InUse ==
  ({applyConnection, batchConnection}
     \cup {invConnection[id] : id \in TriggerIds}) \ {0}

\* Variant: the pool hands out its first connection whether or not it is
\* checked out.
PoolAcquireAny == CHOOSE c \in Connections : \A d \in Connections : c <= d

\* pool.acquire(): a connection that is not checked out. The program has at
\* most five holders, fewer than max_size, so acquire never has to wait.
PoolAcquire ==
  CHOOSE c \in Connections \ InUse : \A d \in Connections \ InUse : c <= d

Min(S) == CHOOSE x \in S : \A y \in S : x <= y

Bump(n) == IF n < MaxCommits THEN n + 1 ELSE n

\* sorted(...): the ascending sequence of a finite set of names.
RECURSIVE Sorted(_)
Sorted(S) == IF S = {} THEN <<>> ELSE <<Min(S)>> \o Sorted(S \ {Min(S)})

\* path.suffix == ".sql"
HasSqlSuffix(n) == n >= 1

SqlFiles == {n \in dirEntries : HasSqlSuffix(n)}

NoJobs == [id \in TriggerIds |-> 0]
NoEffects == [f \in SqlNames |-> [i \in 1..MaxStmts |-> 0]]

\* -------------------------------------------------------------------- Init
\* Any directory: absent, empty, or holding files of 0..MaxStmts statements.
DirInit ==
  /\ dirExists \in BOOLEAN
  /\ dirEntries \in SUBSET DirNames
  /\ fileStmts \in [SqlNames -> 0..MaxStmts]
  /\ ~dirExists => dirEntries = {}
  /\ \A f \in SqlNames : f \notin dirEntries => fileStmts[f] = 0

MigInit ==
  /\ tableExists = FALSE
  /\ tracked = [f \in SqlNames |-> 0]
  /\ effects = NoEffects
  /\ inTx = FALSE /\ txStmts = {} /\ txRow = FALSE
  /\ mpc = "idle" /\ files = <<>> /\ fidx = 1 /\ sidx = 0
  /\ connHeld = FALSE /\ applyConnection = 0 /\ applyResult = "none"
  /\ executed = {} /\ attempted = {} /\ skipped = {} /\ appliedInRun = <<>>
  /\ failedFile = 0 /\ prevFailed = 0 /\ prevResult = "none"
  /\ dbAtStart = [t |-> FALSE, r |-> [f \in SqlNames |-> 0], e |-> NoEffects]

\* Optional values: None, or Some(v).
None == <<>>
Some(v) == <<v>>
\* Python truthiness of an optional string
Truthy(o) == o # None /\ o[1] # ""

\* No invocation has run and no SchedulerManager call was made.
SchedRest ==
  /\ jobs = NoJobs /\ schedRunning = FALSE
  /\ inflight = [id \in TriggerIds |-> 0]
  /\ fired = {} /\ missed = {} /\ atShutdown = {}
  /\ invPc = [id \in TriggerIds |-> "idle"]
  /\ invConn = [id \in TriggerIds |-> FALSE]
  /\ invConnection = [id \in TriggerIds |-> 0]
  /\ invQuoted = [id \in TriggerIds |-> ""]
  /\ invStmts = [id \in TriggerIds |-> <<>>]
  /\ invResult = [id \in TriggerIds |-> "none"]
  /\ lastCall = "none" /\ callRaised = FALSE /\ calls = 0

\* The process is down; RETENTION_PROCEDURE and PARTITION_PROCEDURE are unset
\* (the defaults of SchedulerConfig).
ProcInit ==
  /\ sstate = "down" /\ spos = 1 /\ poolOpen = FALSE
  /\ mgrCreated = FALSE /\ stateMgr = FALSE
  /\ procs = [id \in MaintIds |-> None]
  /\ SchedRest

\* What _parse_metadata returns for a file, as metadata.get(key) per key.
Meta(name, type, object, refresh) ==
  [name |-> name, type |-> type, object |-> object, refresh_sql |-> refresh,
   description |-> None]

NoMeta == Meta(None, None, None, None)

\* Job files: a materialized view relying on the default statement, a job
\* with its own statement, a file without @name, a file of another type
\* without @refresh_sql.
JobMetas ==
  { Meta(Some("pop_trend"), Some("materialized_view"), Some("mv_population"),
         None),
    Meta(Some("seed"), Some("table"), Some("t_seed"),
         Some("INSERT INTO t_seed SELECT 1")),
    Meta(None, Some("materialized_view"), Some("mv_population"), None),
    Meta(Some("orphan"), Some("table"), Some("t_seed"), None) }

NoResult ==
  [definition |-> None, success |-> FALSE, rows_affected |-> None,
   message |-> None]

NoOutcome == [ok |-> TRUE, text |-> "", words |-> <<>>]

\* No job directory, nothing running: the refresh batch at rest.
\* No helper has been called directly.
MetaRest == metaLines = <<>> /\ metaResult = None
SplitRest == sqlLines = <<>> /\ splitResult = None
ExecRest == execArgs = None /\ execReturn = None
Appliers == {"a", "b"}
NoRun == [pc |-> "idle", fidx |-> 1, sidx |-> 0, txStmts |-> {},
          txRow |-> FALSE, result |-> "none", lostOn |-> 0]
RaceRest == runs = [p \in Appliers |-> NoRun]
SideRest == MetaRest /\ SplitRest /\ ExecRest /\ RaceRest

BatchInit ==
  /\ auditRows = <<>>
  /\ bpc = "idle" /\ definitions = <<>> /\ didx = 1 /\ bconn = FALSE /\ batchConnection = 0
  /\ curResult = NoResult /\ batchResult = "none"
  /\ results = <<>> /\ recFailedAt = {} /\ auditAtStart = 0
  /\ lastOutcome = NoOutcome /\ execRaised = FALSE

NoJobDir ==
  /\ jobDirExists = FALSE /\ jobEntries = {}
  /\ jobMeta = [f \in JobNames |-> NoMeta]
  /\ loadResult = None

\* Any job directory: absent, empty, or holding valid and invalid files.
JobDirInit ==
  /\ jobDirExists \in BOOLEAN
  /\ jobEntries \in SUBSET JobNames
  /\ jobMeta \in [JobNames -> JobMetas \cup {NoMeta}]
  /\ ~jobDirExists => jobEntries = {}
  /\ \A f \in JobNames : f \in jobEntries <=> jobMeta[f] # NoMeta
  /\ loadResult = None

Init == DirInit /\ MigInit /\ ProcInit /\ NoJobDir /\ BatchInit /\ SideRest

\* ------------------------------------------------- the store's transactions
\* connection.execute(statement) inside `async with connection.transaction()`
\* (migrations.py 101-102): the effect stays private to the transaction.
\* Variant: the statement runs outside the transaction and commits at once.
RunStatementAutocommit(f, i) ==
  /\ effects' = [effects EXCEPT ![f][i] = Bump(@)]
  /\ UNCHANGED txStmts

RunStatement(f, i) ==
  /\ txStmts' = txStmts \cup {i}
  /\ UNCHANGED effects

\* Variant: the statements executed before the failure stay committed.
RollbackKeepsEffects ==
  /\ inTx' = FALSE /\ txStmts' = {} /\ txRow' = FALSE
  /\ effects' = [effects EXCEPT
                   ![files[fidx]] = [i \in 1..MaxStmts |->
                      IF i \in txStmts THEN Bump(@[i]) ELSE @[i]]]
  /\ UNCHANGED <<tableExists, tracked>>

\* An exception leaving the transaction block: ROLLBACK.
RollbackTx ==
  /\ inTx' = FALSE /\ txStmts' = {} /\ txRow' = FALSE
  /\ UNCHANGED dbVars

\* Normal exit of the transaction block: COMMIT publishes the statements'
\* effects and the tracking row together.
CommitEffects(f) ==
  /\ effects' = [effects EXCEPT
                   ![f] = [i \in 1..MaxStmts |->
                      IF i \in txStmts THEN Bump(@[i]) ELSE @[i]]]
  /\ tracked' = [tracked EXCEPT ![f] = IF txRow THEN Bump(@) ELSE @]
  /\ UNCHANGED tableExists

\* ------------------------------------------------------ apply_sql_directory
\* Variant: the files in an order iterdir() may give, without sorted().
RECURSIVE Descending(_)
Descending(S) ==
  IF S = {} THEN <<>> ELSE Descending(S \ {Min(S)}) \o <<Min(S)>>

ListFilesUnsorted == Descending(SqlFiles)

\* files = sorted(path for path in sql_dir.iterdir() if path.suffix == ".sql")
ListFiles == Sorted(SqlFiles)

\* Variant: the lookup without its WHERE clause.
AlreadyAppliedAnyRow(f) == \E g \in SqlNames : tracked[g] >= 1

\* Variant: the lookup never finds the row.
AlreadyAppliedNever(f) == FALSE

\* SELECT 1 FROM analytics_sql_migrations WHERE filename = $1
AlreadyApplied(f) == tracked[f] >= 1

\* Variant: the failure is caught per file and the loop goes on.
ContinueRun(f) ==
  /\ failedFile' = f
  /\ fidx' = fidx + 1 /\ sidx' = 0 /\ mpc' = "check"
  /\ UNCHANGED <<connHeld, applyConnection, applyResult, files>>

\* No handler in apply_sql_directory: the exception releases the connection
\* and leaves the function.
AbortRun(f) ==
  /\ failedFile' = f
  /\ connHeld' = FALSE /\ applyConnection' = 0 /\ mpc' = "idle" /\ applyResult' = "raised"
  /\ UNCHANGED <<files, fidx, sidx>>

OnStatementError(f) == RollbackTx /\ AbortRun(f)

\* Variant: no test for the directory; iterdir() raises on a missing one.
ApplyCallNoExistsTest ==
  /\ mpc = "idle"
  /\ prevFailed' = failedFile /\ prevResult' = applyResult
  /\ dbAtStart' = [t |-> tableExists, r |-> tracked, e |-> effects]
  /\ executed' = {} /\ attempted' = {} /\ skipped' = {}
  /\ appliedInRun' = <<>> /\ failedFile' = 0
  /\ fidx' = 1 /\ sidx' = 0
  /\ IF ~dirExists
       THEN files' = <<>> /\ mpc' = "idle" /\ applyResult' = "raised"
       ELSE /\ files' = ListFiles
            /\ IF ListFiles = <<>>
                 THEN mpc' = "idle" /\ applyResult' = "returned"
                 ELSE mpc' = "acquire" /\ applyResult' = "none"
  /\ UNCHANGED <<connHeld, applyConnection, dirVars, dbVars, txVars>>

\* The call, up to the first await (lines 76-84).
ApplyCall ==
  /\ mpc = "idle"
  /\ prevFailed' = failedFile /\ prevResult' = applyResult
  /\ dbAtStart' = [t |-> tableExists, r |-> tracked, e |-> effects]
  /\ executed' = {} /\ attempted' = {} /\ skipped' = {}
  /\ appliedInRun' = <<>> /\ failedFile' = 0
  /\ fidx' = 1 /\ sidx' = 0
  /\ IF ~dirExists
       THEN files' = <<>> /\ mpc' = "idle" /\ applyResult' = "returned"
       ELSE /\ files' = ListFiles
            /\ IF ListFiles = <<>>
                 THEN mpc' = "idle" /\ applyResult' = "returned"
                 ELSE mpc' = "acquire" /\ applyResult' = "none"
  /\ UNCHANGED <<connHeld, applyConnection, dirVars, dbVars, txVars>>

\* a caller invokes apply_sql_directory(pool, directory)
ApplierCall ==
  /\ ApplyCall
  /\ UNCHANGED <<schedVars, procVars>>
  /\ UNCHANGED jobVars

\* async with pool.acquire() as connection
ApplyAcquire ==
  /\ mpc = "acquire"
  /\ connHeld' = TRUE /\ applyConnection' = PoolAcquire /\ mpc' = "ensure"
  /\ UNCHANGED <<files, fidx, sidx, applyResult>>
  /\ UNCHANGED <<dirVars, dbVars, txVars, histVars, schedVars, procVars>>
  /\ UNCHANGED jobVars

\* _ensure_migrations_table: CREATE TABLE IF NOT EXISTS, outside a transaction
EnsureMigrationsTable ==
  /\ mpc = "ensure"
  /\ tableExists' = TRUE /\ mpc' = "check"
  /\ UNCHANGED <<tracked, effects, files, fidx, sidx, connHeld, applyConnection, applyResult>>
  /\ UNCHANGED <<dirVars, txVars, histVars, schedVars, procVars>>
  /\ UNCHANGED jobVars

\* One turn of `for path in files` up to the transaction's BEGIN (88-101),
\* or the end of the loop: the connection is released and the call returns.
ApplyNextFile ==
  /\ mpc = "check"
  /\ IF fidx > Len(files)
       THEN /\ connHeld' = FALSE /\ applyConnection' = 0 /\ mpc' = "idle" /\ applyResult' = "returned"
            /\ UNCHANGED <<files, fidx, sidx, txVars, histVars>>
       ELSE LET f == files[fidx] IN
            IF AlreadyApplied(f)
              THEN /\ skipped' = skipped \cup {f}
                   /\ fidx' = fidx + 1
                   /\ UNCHANGED <<files, sidx, mpc, connHeld, applyConnection, applyResult,
                                  txVars, executed, attempted, appliedInRun,
                                  failedFile, prevFailed, prevResult,
                                  dbAtStart>>
              ELSE /\ inTx' = TRUE /\ txStmts' = {} /\ txRow' = FALSE
                   /\ attempted' = attempted \cup {f}
                   /\ sidx' = 0 /\ mpc' = "stmt"
                   /\ UNCHANGED <<files, fidx, connHeld, applyConnection, applyResult,
                                  executed, skipped, appliedInRun, failedFile,
                                  prevFailed, prevResult, dbAtStart>>
  /\ UNCHANGED <<dirVars, dbVars, schedVars, procVars>>
  /\ UNCHANGED jobVars

\* _run_statements: the next statement of the file succeeds
RunStmtOk ==
  /\ mpc = "stmt" /\ sidx < fileStmts[files[fidx]]
  /\ RunStatement(files[fidx], sidx + 1)
  /\ executed' = executed \cup {<<files[fidx], sidx + 1>>}
  /\ sidx' = sidx + 1
  /\ UNCHANGED <<tableExists, tracked, inTx, txRow>>
  /\ UNCHANGED <<mpc, files, fidx, connHeld, applyConnection, applyResult>>
  /\ UNCHANGED <<attempted, skipped, appliedInRun, failedFile, prevFailed,
                 prevResult, dbAtStart>>
  /\ UNCHANGED <<dirVars, schedVars, procVars>>
  /\ UNCHANGED jobVars

\* _run_statements: the next statement of the file raises
RunStmtFail ==
  /\ mpc = "stmt" /\ sidx < fileStmts[files[fidx]]
  /\ executed' = executed \cup {<<files[fidx], sidx + 1>>}
  /\ OnStatementError(files[fidx])
  /\ UNCHANGED <<attempted, skipped, appliedInRun, prevFailed, prevResult,
                 dbAtStart>>
  /\ UNCHANGED <<dirVars, schedVars, procVars>>
  /\ UNCHANGED jobVars

\* INSERT INTO analytics_sql_migrations (filename) VALUES ($1); filename is
\* the PRIMARY KEY, so a second row for it is a unique violation.
InsertTracking ==
  /\ mpc = "stmt" /\ sidx = fileStmts[files[fidx]]
  /\ IF tracked[files[fidx]] >= 1
       THEN OnStatementError(files[fidx])
       ELSE /\ txRow' = TRUE /\ mpc' = "commit"
            /\ UNCHANGED <<inTx, txStmts, dbVars, files, fidx, sidx,
                           connHeld, applyConnection, applyResult, failedFile>>
  /\ UNCHANGED <<executed, attempted, skipped, appliedInRun, prevFailed,
                 prevResult, dbAtStart>>
  /\ UNCHANGED <<dirVars, schedVars, procVars>>
  /\ UNCHANGED jobVars

\* leaving `async with connection.transaction()` normally
CommitTx ==
  /\ mpc = "commit"
  /\ CommitEffects(files[fidx])
  /\ inTx' = FALSE /\ txStmts' = {} /\ txRow' = FALSE
  /\ appliedInRun' = Append(appliedInRun, files[fidx])
  /\ fidx' = fidx + 1 /\ sidx' = 0 /\ mpc' = "check"
  /\ UNCHANGED <<files, connHeld, applyConnection, applyResult>>
  /\ UNCHANGED <<executed, attempted, skipped, failedFile, prevFailed,
                 prevResult, dbAtStart>>
  /\ UNCHANGED <<dirVars, schedVars, procVars>>
  /\ UNCHANGED jobVars

\* ------------------------------------------------------ SchedulerManager
\* Variant: add_job without replace_existing adds a second entry.
AddJobDuplicate(js, id) == [js EXCEPT ![id] = IF @ < 2 THEN @ + 1 ELSE @]

\* add_job(..., id=id, replace_existing=True)
AddJob(js, id) == [js EXCEPT ![id] = 1]

\* SchedulerManager.start: three add_job calls, then scheduler.start(), which
\* raises SchedulerAlreadyRunningError when the scheduler is running.
SchedulerStart ==
  /\ jobs' = AddJob(AddJob(AddJob(jobs, RefreshId),
                           "retention_maintenance"), "partition_maintenance")
  /\ schedRunning' = TRUE
  /\ callRaised' = schedRunning
  /\ lastCall' = "start" /\ calls' = 1 - calls
  /\ atShutdown' = {}

\* SchedulerManager.snapshot: one entry per job of get_jobs().
Snapshot == {e \in TriggerIds \X (1..2) : e[2] <= jobs[e[1]]}

\* An invocation ends: its connection is released.
EndInvocation(ids, res) ==
  /\ invPc' = [id \in TriggerIds |-> IF id \in ids THEN "idle" ELSE invPc[id]]
  /\ invConn' = [id \in TriggerIds |->
                   IF id \in ids THEN FALSE ELSE invConn[id]]
  /\ invConnection' = [id \in TriggerIds |->
                         IF id \in ids THEN 0 ELSE invConnection[id]]
  /\ invResult' = [id \in TriggerIds |->
                     IF id \in ids THEN res ELSE invResult[id]]
  /\ inflight' = [id \in TriggerIds |->
                    IF id \in ids THEN 0 ELSE inflight[id]]

\* scheduler.shutdown(wait=False): the scheduler stops and its job store is
\* emptied. The call does not wait for running invocations; whether the
\* executor leaves them running or cancels them is the scheduler library's
\* choice, so both outcomes are possible here.
SchedulerShutdown(cancel) ==
  /\ schedRunning' = FALSE
  /\ jobs' = NoJobs
  /\ atShutdown' = {id \in TriggerIds : inflight[id] > 0}
  /\ IF cancel
       THEN EndInvocation({id \in TriggerIds : inflight[id] > 0}, "cancelled")
       ELSE UNCHANGED <<invPc, invConn, invConnection, invResult, inflight>>
  /\ UNCHANGED <<invQuoted, invStmts>>

\* Variant: shutdown without the `running` test; the scheduler raises
\* SchedulerNotRunningError when it is not running.
ManagerShutdownUnguarded(cancel) ==
  /\ lastCall' = "shutdown" /\ calls' = 1 - calls
  /\ IF schedRunning
       THEN SchedulerShutdown(cancel) /\ callRaised' = FALSE
       ELSE /\ callRaised' = TRUE
            /\ UNCHANGED <<jobs, schedRunning, inflight, invVars, atShutdown>>

\* SchedulerManager.shutdown
ManagerShutdown(cancel) ==
  /\ lastCall' = "shutdown" /\ calls' = 1 - calls
  /\ callRaised' = FALSE
  /\ IF schedRunning
       THEN SchedulerShutdown(cancel)
       ELSE UNCHANGED <<jobs, schedRunning, inflight, invVars, atShutdown>>

\* Variant: the executor accepts any number of running instances of a job.
CanSubmitAlways(id) == TRUE

\* The executor accepts a run of a job only while fewer than max_instances
\* runs of it are going on.
CanSubmit(id) == inflight[id] < MaxInstances

\* SELECT quote_ident($1) (PostgreSQL): a plain lower-case identifier comes
\* back as it is, any other name wrapped in double quotes.
PlainIdents == {"purge_old", "make_partitions"}
QuoteIdent(name) ==
  IF name \in PlainIdents THEN name ELSE "\"" \o name \o "\""

\* The procedure names a deployment may configure ("" cannot come from the
\* environment but can be given to SchedulerConfig directly).
ProcNames == {None, Some(""), Some("purge_old"), Some("Purge; DROP TABLE t")}

QuoteStatement(name) == [sql |-> "SELECT quote_ident($1)", args |-> <<name>>]

\* Variant: the CALL is built from the configured name itself.
CallTargetRaw(id) == procs[id][1]

\* what run_*_procedure puts into the CALL: the value fetchval returned
CallTarget(id) == invQuoted[id]

CallStatement(target) == [sql |-> "CALL " \o target \o "();", args |-> <<>>]

\* The start of an invocation, up to its first wait. The refresh trigger's
\* callable is the name scheduler.py imports from jobs.py; its body is not
\* in the repository and is opaque here. run_retention_procedure and
\* run_partition_procedure return at once without a configured name, else
\* they acquire a connection.
BeginInvocation(id) ==
  /\ invStmts' = [invStmts EXCEPT ![id] = <<>>]
  /\ invQuoted' = [invQuoted EXCEPT ![id] = ""]
  /\ IF id = RefreshId
       THEN /\ invPc' = [invPc EXCEPT ![id] = "running"]
            /\ invResult' = [invResult EXCEPT ![id] = "none"]
            /\ inflight' = [inflight EXCEPT ![id] = @ + 1]
            /\ UNCHANGED <<invConn, invConnection>>
       ELSE IF ~Truthy(procs[id])
         THEN /\ invResult' = [invResult EXCEPT ![id] = "returned"]
              /\ UNCHANGED <<invPc, invConn, invConnection, inflight>>
         ELSE /\ invPc' = [invPc EXCEPT ![id] = "quote"]
              /\ invConn' = [invConn EXCEPT ![id] = TRUE]
              /\ invConnection' = [invConnection EXCEPT ![id] = PoolAcquire]
              /\ invResult' = [invResult EXCEPT ![id] = "none"]
              /\ inflight' = [inflight EXCEPT ![id] = @ + 1]

\* A trigger's interval elapses: the scheduler submits one run of the job, or
\* skips this firing when the executor does not accept it.
Fire(id) ==
  /\ schedRunning /\ jobs[id] >= 1
  /\ IF CanSubmit(id)
       THEN /\ fired' = fired \cup {id}
            /\ BeginInvocation(id)
            /\ UNCHANGED missed
       ELSE /\ missed' = missed \cup {id}
            /\ UNCHANGED <<fired, inflight, invVars>>
  /\ UNCHANGED <<mgrCreated, stateMgr, jobs, schedRunning, procs>>
  /\ UNCHANGED <<lastCall, callRaised, calls, atShutdown>>
  /\ UNCHANGED <<dirVars, dbVars, txVars, migVars, histVars, procVars>>
  /\ UNCHANGED jobVars

InvocationStep ==
  /\ UNCHANGED <<mgrCreated, stateMgr, jobs, schedRunning, fired, procs>>
  /\ UNCHANGED apiVars
  /\ UNCHANGED <<dirVars, dbVars, txVars, migVars, histVars, procVars>>
  /\ UNCHANGED jobVars

\* The refresh trigger's invocation ends.
Complete(id) ==
  /\ invPc[id] = "running"
  /\ EndInvocation({id}, "returned")
  /\ UNCHANGED <<invQuoted, invStmts>>
  /\ InvocationStep

\* quoted_procedure = await connection.fetchval("SELECT quote_ident($1)", ..)
InvQuoteOk(id) ==
  /\ invPc[id] = "quote"
  /\ invStmts' = [invStmts EXCEPT
                    ![id] = Append(@, QuoteStatement(procs[id][1]))]
  /\ invQuoted' = [invQuoted EXCEPT ![id] = QuoteIdent(procs[id][1])]
  /\ invPc' = [invPc EXCEPT ![id] = "call"]
  /\ UNCHANGED <<invConn, invConnection, invResult, inflight>>
  /\ InvocationStep

\* the fetchval raises: the invocation ends with the error
InvQuoteFail(id) ==
  /\ invPc[id] = "quote"
  /\ invStmts' = [invStmts EXCEPT
                    ![id] = Append(@, QuoteStatement(procs[id][1]))]
  /\ EndInvocation({id}, "raised")
  /\ UNCHANGED invQuoted
  /\ InvocationStep

\* await connection.execute(f"CALL {quoted_procedure}();"), then `async with`
\* releases the connection
InvCall(id, ok) ==
  /\ invPc[id] = "call"
  /\ invStmts' = [invStmts EXCEPT
                    ![id] = Append(@, CallStatement(CallTarget(id)))]
  /\ EndInvocation({id}, IF ok THEN "returned" ELSE "raised")
  /\ UNCHANGED invQuoted
  /\ InvocationStep

\* ------------------------------------------------------------- on_startup
\* Variant: the scheduler is created and started before the migrations.
StartupOrderSchedulerFirst == <<"pool", "mgr", "start", "apply", "state">>

\* The statements of on_startup in program order (main.py 57-64).
StartupOrder == <<"pool", "apply", "mgr", "start", "state">>

StartupStep == StartupOrder[spos]

Advance ==
  /\ spos' = spos + 1
  /\ sstate' = IF spos = Len(StartupOrder) THEN "up" ELSE "starting"

\* The server process starts and calls on_startup.
ProcessStart ==
  /\ sstate = "down"
  /\ sstate' = "starting" /\ spos' = 1
  /\ UNCHANGED <<poolOpen, dirVars, dbVars, txVars, migVars, histVars,
                 schedVars>>
  /\ UNCHANGED jobVars

\* pool = await init_db_pool(config)
StartupInitPool ==
  /\ sstate = "starting" /\ StartupStep = "pool"
  /\ poolOpen' = TRUE
  /\ Advance
  /\ UNCHANGED <<dirVars, dbVars, txVars, migVars, histVars, schedVars>>
  /\ UNCHANGED jobVars

\* await apply_sql_directory(pool): the call
StartupApply ==
  /\ sstate = "starting" /\ StartupStep = "apply"
  /\ poolOpen
  /\ ApplyCall
  /\ sstate' = "in_apply"
  /\ UNCHANGED <<spos, poolOpen, schedVars>>
  /\ UNCHANGED jobVars

\* Variant: on_startup catches the applier's exception and goes on.
SwallowApplyError == Advance

\* apply_sql_directory raised: on_startup has no handler either.
PropagateApplyError == sstate' = "failed" /\ UNCHANGED spos

\* await apply_sql_directory(pool): the call returns or raises
StartupAfterApply ==
  /\ sstate = "in_apply" /\ mpc = "idle"
  /\ IF applyResult = "raised" THEN PropagateApplyError ELSE Advance
  /\ UNCHANGED <<poolOpen, dirVars, dbVars, txVars, migVars, histVars,
                 schedVars>>
  /\ UNCHANGED jobVars

\* scheduler_manager = SchedulerManager(config, pool)
StartupCreateManager ==
  /\ sstate = "starting" /\ StartupStep = "mgr"
  /\ mgrCreated' = TRUE
  /\ Advance
  /\ UNCHANGED <<stateMgr, jobs, schedRunning, inflight, fired>>
  /\ UNCHANGED <<procs, invVars, apiVars>>
  /\ UNCHANGED <<poolOpen, dirVars, dbVars, txVars, migVars, histVars>>
  /\ UNCHANGED jobVars

\* scheduler_manager.start()
StartupStartScheduler ==
  /\ sstate = "starting" /\ StartupStep = "start"
  /\ mgrCreated
  /\ SchedulerStart
  /\ Advance
  /\ UNCHANGED <<mgrCreated, stateMgr, inflight, fired, missed>>
  /\ UNCHANGED <<procs, invVars>>
  /\ UNCHANGED <<poolOpen, dirVars, dbVars, txVars, migVars, histVars>>
  /\ UNCHANGED jobVars

\* app.state.scheduler_manager = scheduler_manager
StartupSetState ==
  /\ sstate = "starting" /\ StartupStep = "state"
  /\ stateMgr' = mgrCreated
  /\ Advance
  /\ UNCHANGED <<mgrCreated, jobs, schedRunning, inflight, fired>>
  /\ UNCHANGED <<procs, invVars, apiVars>>
  /\ UNCHANGED <<poolOpen, dirVars, dbVars, txVars, migVars, histVars>>
  /\ UNCHANGED jobVars

\* on_shutdown: scheduler_manager.shutdown() if one is set, close_db_pool()
OnShutdown ==
  /\ sstate = "up"
  /\ IF stateMgr
       THEN \E cancel \in BOOLEAN : ManagerShutdown(cancel)
       ELSE UNCHANGED <<jobs, schedRunning, inflight, invVars, lastCall,
                        callRaised, calls, atShutdown>>
  /\ poolOpen' = FALSE
  /\ sstate' = "stopped"
  /\ UNCHANGED <<spos, mgrCreated, stateMgr, fired, missed, procs>>
  /\ UNCHANGED <<dirVars, dbVars, txVars, migVars, histVars>>
  /\ UNCHANGED jobVars

\* The process ends (after shutdown, or because startup failed); everything
\* it held in memory is gone, the store stays.
ProcessExit ==
  /\ sstate \in {"failed", "stopped"}
  /\ sstate' = "down" /\ spos' = 1 /\ poolOpen' = FALSE
  /\ mgrCreated' = FALSE /\ stateMgr' = FALSE
  /\ jobs' = NoJobs /\ schedRunning' = FALSE
  /\ inflight' = [id \in TriggerIds |-> 0]
  /\ fired' = {} /\ missed' = {} /\ atShutdown' = {}
  /\ invPc' = [id \in TriggerIds |-> "idle"]
  /\ invConn' = [id \in TriggerIds |-> FALSE]
  /\ invConnection' = [id \in TriggerIds |-> 0]
  /\ invQuoted' = [id \in TriggerIds |-> ""]
  /\ invStmts' = [id \in TriggerIds |-> <<>>]
  /\ invResult' = [id \in TriggerIds |-> "none"]
  /\ lastCall' = "none" /\ callRaised' = FALSE /\ calls' = 0
  /\ UNCHANGED procs
  /\ UNCHANGED <<dirVars, dbVars, txVars, migVars, histVars>>
  /\ UNCHANGED jobVars

Next ==
  \/ ProcessStart
  \/ StartupInitPool
  \/ StartupApply
  \/ ApplyAcquire
  \/ EnsureMigrationsTable
  \/ ApplyNextFile
  \/ RunStmtOk
  \/ RunStmtFail
  \/ InsertTracking
  \/ CommitTx
  \/ StartupAfterApply
  \/ StartupCreateManager
  \/ StartupStartScheduler
  \/ StartupSetState
  \/ \E id \in TriggerIds : Fire(id)
  \/ Complete(RefreshId)
  \/ OnShutdown
  \/ ProcessExit

Spec == Init /\ [][Next]_vars

\* ------------------------------------------- the SchedulerManager by itself
\* on_startup has just constructed the SchedulerManager (main.py 59), under
\* any configuration of the two procedure names. There is no migration
\* directory; the job directory holds one valid definition.
SchedInit ==
  /\ dirExists = FALSE /\ dirEntries = {}
  /\ fileStmts = [f \in SqlNames |-> 0]
  /\ MigInit
  /\ sstate = "starting" /\ spos = 4 /\ poolOpen = TRUE
  /\ mgrCreated = TRUE /\ stateMgr = FALSE
  /\ procs \in [MaintIds -> ProcNames]
  /\ SchedRest
  /\ jobDirExists = TRUE /\ jobEntries = {1}
  /\ jobMeta = [f \in JobNames |->
                 IF f = 1
                   THEN Meta(Some("pop_trend"), Some("materialized_view"),
                             Some("mv_population"), None)
                   ELSE NoMeta]
  /\ loadResult = None
  /\ BatchInit /\ SideRest

\* a caller invokes SchedulerManager.start()
CallStart ==
  /\ mgrCreated
  /\ SchedulerStart
  /\ UNCHANGED <<mgrCreated, stateMgr, inflight, fired, missed>>
  /\ UNCHANGED <<procs, invVars>>
  /\ UNCHANGED <<dirVars, dbVars, txVars, migVars, histVars, procVars>>
  /\ UNCHANGED jobVars

\* a caller invokes SchedulerManager.shutdown()
CallShutdown ==
  /\ mgrCreated
  /\ \E cancel \in BOOLEAN : ManagerShutdown(cancel)
  /\ UNCHANGED <<mgrCreated, stateMgr, fired, missed, procs>>
  /\ UNCHANGED <<dirVars, dbVars, txVars, migVars, histVars, procVars>>
  /\ UNCHANGED jobVars

SchedNext ==
  \/ CallStart
  \/ CallShutdown
  \/ \E id \in TriggerIds : Fire(id)
  \/ Complete(RefreshId)
  \/ \E id \in MaintIds : InvQuoteOk(id)
  \/ \E id \in MaintIds : InvQuoteFail(id)
  \/ \E id \in MaintIds, ok \in BOOLEAN : InvCall(id, ok)

SpecSched == SchedInit /\ [][SchedNext]_vars

\* ------------------------------------------------------------ sql_jobs.py
\* load_sql_jobs, one file of the sorted glob (lines 75-103): << >> when the
\* file is skipped, else the one definition it yields.
\* Variant: the keys are tested with `is not None`.
RequiredKeysNotNone(m) == m.name # None /\ m.type # None /\ m.object # None

\* all([name, job_type, object_name])
RequiredKeys(m) == Truthy(m.name) /\ Truthy(m.type) /\ Truthy(m.object)

\* Variant: the default statement without CONCURRENTLY.
DefaultRefreshSqlPlain(object) == "REFRESH MATERIALIZED VIEW " \o object

\* f"REFRESH MATERIALIZED VIEW CONCURRENTLY {object_name}"
DefaultRefreshSql(object) ==
  "REFRESH MATERIALIZED VIEW CONCURRENTLY " \o object

LoadFile(path, m) ==
  IF ~RequiredKeys(m)
    THEN <<>>
    ELSE LET refresh ==
               IF m.type[1] = "materialized_view" /\ ~Truthy(m.refresh_sql)
                 THEN Some(DefaultRefreshSql(m.object[1]))
                 ELSE m.refresh_sql
         IN IF ~Truthy(refresh)
              THEN <<>>
              ELSE << [name |-> m.name[1], job_type |-> m.type[1],
                       object_name |-> m.object[1],
                       refresh_sql |-> refresh[1], source_file |-> path,
                       description |-> IF Truthy(m.description)
                                         THEN m.description ELSE None] >>

RECURSIVE LoadFiles(_)
LoadFiles(paths) ==
  IF paths = <<>> THEN <<>>
  ELSE LoadFile(Head(paths), jobMeta[Head(paths)]) \o LoadFiles(Tail(paths))

\* load_sql_jobs (lines 66-105)
LoadSqlJobs == IF ~jobDirExists THEN <<>> ELSE LoadFiles(Sorted(jobEntries))

\* ------------------------------------------------- load_sql_jobs by itself
MvType == "materialized_view"

\* What _parse_metadata can hand to the loop for one file: a key is missing,
\* present and empty, or present with a value.
LoaderMetas ==
  { Meta(n, t, o, r) :
      n \in {None, Some(""), Some("pop_trend")},
      t \in {None, Some(MvType), Some("table")},
      o \in {None, Some("mv_population"), Some("Stats.\"Daily MV\"")},
      r \in {None, Some(""), Some("SELECT refresh_population()")} }

\* Any directory: absent, or holding any files with any metadata.
LoaderInit ==
  /\ dirExists = FALSE /\ dirEntries = {}
  /\ fileStmts = [f \in SqlNames |-> 0]
  /\ MigInit /\ ProcInit /\ BatchInit /\ SideRest
  /\ jobDirExists \in BOOLEAN
  /\ jobEntries \in SUBSET JobNames
  /\ jobMeta \in [JobNames -> LoaderMetas]
  /\ ~jobDirExists => jobEntries = {}
  /\ \A f \in JobNames : f \notin jobEntries => jobMeta[f] = NoMeta
  /\ loadResult = None

\* a caller invokes load_sql_jobs(directory)
LoadCall ==
  /\ loadResult = None
  /\ loadResult' = Some(LoadSqlJobs)
  /\ UNCHANGED <<jobDirExists, jobEntries, jobMeta, auditRows, batchVars,
                 batchHist>>
  /\ UNCHANGED <<dirVars, dbVars, txVars, migVars, histVars, schedVars,
                 procVars, sideVars>>

LoaderNext == LoadCall

SpecLoader == LoaderInit /\ [][LoaderNext]_vars

\* int(token): the value of a decimal token, None for a ValueError
IntOf(tok) ==
  CASE tok = "0" -> Some(0)
    [] tok = "3" -> Some(3)
    [] tok = "5" -> Some(5)
    [] OTHER -> None

\* What connection.execute(definition.refresh_sql) can do: return a status
\* tag (text, and words = text.split()) or raise an error carrying text.
Outcomes ==
  { [ok |-> TRUE, text |-> "REFRESH MATERIALIZED VIEW",
     words |-> <<"REFRESH", "MATERIALIZED", "VIEW">>],
    [ok |-> TRUE, text |-> "INSERT 0 5", words |-> <<"INSERT", "0", "5">>],
    [ok |-> FALSE, text |-> "relation does not exist", words |-> <<>>] }

\* Variant: the executor lets the statement's exception through.
ExecuteSqlJobReraise(d, o) ==
  [raised |-> ~o.ok,
   result |-> [definition |-> Some(d), success |-> o.ok,
               rows_affected |-> None, message |-> Some(o.text)]]

\* execute_sql_job (lines 108-147): raised tells whether the call raises
\* instead of returning result.  Timestamps and duration are left out.
ExecuteSqlJob(d, o) ==
  [raised |-> FALSE,
   result |->
     IF o.ok
       THEN [definition |-> Some(d), success |-> TRUE,
             rows_affected |->
               IF o.words # <<>> /\ Head(o.words) = "INSERT"
                 THEN IntOf(o.words[Len(o.words)])
                 ELSE None,
             message |-> Some(o.text)]
       ELSE [definition |-> Some(d), success |-> FALSE,
             rows_affected |-> None, message |-> Some(o.text)]]

\* record_job_result (lines 150-181): the row the INSERT adds
AuditRow(r) ==
  [job_name |-> r.definition[1].name, job_type |-> r.definition[1].job_type,
   object_name |-> r.definition[1].object_name,
   source_file |-> r.definition[1].source_file,
   refresh_sql |-> r.definition[1].refresh_sql,
   rows_affected |-> r.rows_affected, success |-> r.success,
   message |-> r.message]

\* Variant: one row per job name, a later run overwrites the earlier row.
UpsertAuditRow(rows, row) ==
  IF \E i \in DOMAIN rows : rows[i].job_name = row.job_name
    THEN [i \in DOMAIN rows |->
            IF rows[i].job_name = row.job_name THEN row ELSE rows[i]]
    ELSE Append(rows, row)

\* INSERT INTO analytics_job_runs (...) VALUES (...): analytics_app issues no
\* other statement on the table.
InsertAuditRow(rows, row) == Append(rows, row)

\* ---------------------------------------------------- run_sql_refresh_jobs
\* The call, up to the first await (jobs.py 22-26).
BatchCall ==
  /\ bpc = "idle"
  /\ Len(auditRows) + MaxJobFiles <= MaxAuditRows
  /\ definitions' = LoadSqlJobs
  /\ results' = <<>> /\ recFailedAt' = {} /\ auditAtStart' = Len(auditRows)
  /\ lastOutcome' = NoOutcome /\ execRaised' = FALSE
  /\ curResult' = NoResult /\ didx' = 1
  /\ IF LoadSqlJobs = <<>>
       THEN bpc' = "idle" /\ batchResult' = "returned"
       ELSE bpc' = "acquire" /\ batchResult' = "none"
  /\ UNCHANGED <<bconn, batchConnection, auditRows, jobDirVars>>
  /\ UNCHANGED <<dirVars, dbVars, txVars, migVars, histVars, schedVars,
                 procVars, sideVars>>

\* async with pool.acquire() as connection
BatchAcquire ==
  /\ bpc = "acquire"
  /\ bconn' = TRUE /\ batchConnection' = PoolAcquire /\ bpc' = "execute"
  /\ UNCHANGED <<definitions, didx, curResult, batchResult, auditRows,
                 jobDirVars, batchHist>>
  /\ UNCHANGED <<dirVars, dbVars, txVars, migVars, histVars, schedVars,
                 procVars, sideVars>>

\* An exception leaving run_sql_refresh_jobs: the connection is released.
BatchRaise ==
  /\ bconn' = FALSE /\ batchConnection' = 0 /\ bpc' = "idle" /\ batchResult' = "raised"
  /\ UNCHANGED didx

\* Variant: the loop is left after the first failed job.
NextJobStopOnFailure(r) == IF r.success THEN didx + 1 ELSE Len(definitions) + 1

\* The end of one turn of `for definition in definitions`.
NextJob(r) == didx + 1

BatchAdvance(r) ==
  /\ didx' = NextJob(r)
  /\ IF NextJob(r) > Len(definitions)
       THEN bconn' = FALSE /\ batchConnection' = 0 /\ bpc' = "idle" /\ batchResult' = "returned"
       ELSE bpc' = "execute" /\ UNCHANGED <<bconn, batchConnection, batchResult>>

\* result = await execute_sql_job(connection, definition)
BatchExecute(o) ==
  /\ bpc = "execute"
  /\ LET x == ExecuteSqlJob(definitions[didx], o) IN
       /\ lastOutcome' = o
       /\ execRaised' = x.raised
       /\ IF x.raised
            THEN BatchRaise /\ UNCHANGED <<curResult, results>>
            ELSE /\ curResult' = x.result
                 /\ results' = Append(results, x.result)
                 /\ bpc' = "record"
                 /\ UNCHANGED <<didx, bconn, batchConnection, batchResult>>
  /\ UNCHANGED <<definitions, recFailedAt, auditAtStart, auditRows,
                 jobDirVars>>
  /\ UNCHANGED <<dirVars, dbVars, txVars, migVars, histVars, schedVars,
                 procVars, sideVars>>

\* Variant: no handler around record_job_result.
PropagateRecordError(r) == BatchRaise

\* `except Exception` around record_job_result: logged, the loop goes on.
SwallowRecordError(r) == BatchAdvance(r)

\* await record_job_result(connection, result): the INSERT succeeds
BatchRecordOk ==
  /\ bpc = "record"
  /\ auditRows' = InsertAuditRow(auditRows, AuditRow(curResult))
  /\ BatchAdvance(curResult)
  /\ UNCHANGED <<definitions, curResult, jobDirVars, batchHist>>
  /\ UNCHANGED <<dirVars, dbVars, txVars, migVars, histVars, schedVars,
                 procVars, sideVars>>

\* await record_job_result(connection, result): the INSERT raises
BatchRecordFail ==
  /\ bpc = "record"
  /\ recFailedAt' = recFailedAt \cup {didx}
  /\ SwallowRecordError(curResult)
  /\ UNCHANGED <<definitions, curResult, auditRows, jobDirVars, results,
                 auditAtStart, lastOutcome, execRaised>>
  /\ UNCHANGED <<dirVars, dbVars, txVars, migVars, histVars, schedVars,
                 procVars, sideVars>>

JobsInit ==
  /\ dirExists = FALSE /\ dirEntries = {}
  /\ fileStmts = [f \in SqlNames |-> 0]
  /\ MigInit /\ ProcInit /\ JobDirInit /\ BatchInit /\ SideRest

JobsNext ==
  \/ ApplierCall
  \/ BatchCall
  \/ BatchAcquire
  \/ \E o \in Outcomes : BatchExecute(o)
  \/ BatchRecordOk
  \/ BatchRecordFail

\* The refresh batch on its own, over any job directory. The migration
\* directory does not exist here, so a call of the applier is ApplierCall
\* alone.
SpecJobs == JobsInit /\ [][JobsNext]_vars

\* ------------------------------------------------------- text, by character
\* A text line is a sequence of one-character strings.
Whitespace == {" ", "\t", "\n"}

\* str.lstrip(), str.rstrip(), str.strip()
RECURSIVE LStrip(_)
LStrip(s) ==
  IF s # <<>> /\ Head(s) \in Whitespace THEN LStrip(Tail(s)) ELSE s

RECURSIVE RStrip(_)
RStrip(s) ==
  IF s # <<>> /\ s[Len(s)] \in Whitespace
    THEN RStrip(SubSeq(s, 1, Len(s) - 1))
    ELSE s

Strip(s) == LStrip(RStrip(s))

\* s.startswith(p), s.endswith(p), s[n:]
StartsWith(s, p) == Len(s) >= Len(p) /\ SubSeq(s, 1, Len(p)) = p
EndsWith(s, p) ==
  Len(s) >= Len(p) /\ SubSeq(s, Len(s) - Len(p) + 1, Len(s)) = p
Drop(s, n) == SubSeq(s, n + 1, Len(s))

\* " " in s, and the two parts of s.split(" ", 1)
HasSpace(s) == \E i \in DOMAIN s : s[i] = " "
FirstSpace(s) == Min({i \in DOMAIN s : s[i] = " "})
BeforeSpace(s) == SubSeq(s, 1, FirstSpace(s) - 1)
AfterSpace(s) == Drop(s, FirstSpace(s))

CommentMarker == <<"-", "-">>

\* ----------------------------------------------------------- _parse_metadata
\* metadata[key] = value
Put(md, key, value) ==
  [k \in DOMAIN md \cup {key} |-> IF k = key THEN value ELSE md[k]]

\* metadata.get(key, "")
Get(md, key) == IF key \in DOMAIN md THEN md[key] ELSE <<>>

\* Variant: the continuation is appended as it is, without lstrip().
ContinuationTextRaw(content) == Tail(content)

\* content[1:].lstrip()
ContinuationText(content) == LStrip(Tail(content))

\* `and current_key`: a key has been set and its name is not empty
CurrentKeyTruthy(cur) == cur # None /\ cur[1] # <<>>

\* The loop of _parse_metadata over the remaining lines, with the metadata
\* collected so far and current_key.
RECURSIVE ParseLines(_, _, _)
ParseLines(lines, md, cur) ==
  IF lines = <<>> THEN md
  ELSE
    LET line == Strip(Head(lines)) IN
    IF ~StartsWith(line, CommentMarker) THEN md
    ELSE
      LET content == Strip(Drop(line, 2)) IN
      IF content = <<>> THEN ParseLines(Tail(lines), md, cur)
      ELSE IF Head(content) = "@"
        THEN LET rest == Tail(content)
                 key == IF HasSpace(content) THEN BeforeSpace(rest) ELSE rest
                 value == IF HasSpace(content) THEN AfterSpace(rest) ELSE <<>>
             IN ParseLines(Tail(lines), Put(md, key, Strip(value)), Some(key))
      ELSE IF Head(content) = "|" /\ CurrentKeyTruthy(cur)
        THEN ParseLines(Tail(lines),
                        Put(md, cur[1],
                            Get(md, cur[1]) \o <<"\n">>
                              \o ContinuationText(content)),
                        cur)
      ELSE ParseLines(Tail(lines), md, cur)

ParseMetadata(lines) == ParseLines(lines, <<>>, None)

\* ------------------------------------------------ _parse_metadata by itself
\* Lines a job file can hold: blank, "-- @n a", "--@n  b ", "-- |x",
\* "--|  y", "--", "S;", "-- @ v", "  -- @t", " ", "-- c".
MetaLineSet ==
  { <<>>,
    <<"-", "-", " ", "@", "n", " ", "a">>,
    <<"-", "-", "@", "n", " ", " ", "b", " ">>,
    <<"-", "-", " ", "|", "x">>,
    <<"-", "-", "|", " ", " ", "y">>,
    <<"-", "-">>,
    <<"S", ";">>,
    <<"-", "-", " ", "@", " ", "v">>,
    <<" ", " ", "-", "-", " ", "@", "t">>,
    <<" ">>,
    <<"-", "-", " ", "c">> }

\* The texts of up to MaxLines lines.
TextsOver(lineSet) ==
  UNION {[1..n -> lineSet] : n \in 0..MaxLines}

MetaInit ==
  /\ dirExists = FALSE /\ dirEntries = {}
  /\ fileStmts = [f \in SqlNames |-> 0]
  /\ MigInit /\ ProcInit /\ NoJobDir /\ BatchInit
  /\ metaLines \in TextsOver(MetaLineSet)
  /\ metaResult = None
  /\ SplitRest /\ ExecRest /\ RaceRest

\* a caller invokes _parse_metadata(lines)
ParseCall ==
  /\ metaResult = None
  /\ metaResult' = Some(ParseMetadata(metaLines))
  /\ UNCHANGED <<metaLines, splitVars, execVars, raceVars>>
  /\ UNCHANGED <<jobDirVars, auditRows, batchVars, batchHist>>
  /\ UNCHANGED <<dirVars, dbVars, txVars, migVars, histVars, schedVars,
                 procVars>>

MetaNext == ParseCall

SpecMeta == MetaInit /\ [][MetaNext]_vars

\* ------------------------------------------- _split_sql_statements
Semicolon == <<";">>

\* str.rstrip(";")
RECURSIVE RStripSemicolons(_)
RStripSemicolons(s) ==
  IF s # <<>> /\ s[Len(s)] = ";"
    THEN RStripSemicolons(SubSeq(s, 1, Len(s) - 1))
    ELSE s

\* "\n".join(buffer)
RECURSIVE JoinLines(_)
JoinLines(buffer) ==
  IF buffer = <<>> THEN <<>>
  ELSE IF Len(buffer) = 1 THEN buffer[1]
  ELSE buffer[1] \o <<"\n">> \o JoinLines(Tail(buffer))

Terminated(buffer) == RStripSemicolons(RStrip(JoinLines(buffer)))
Leftover(buffer) == Strip(JoinLines(buffer))

AppendIfTruthy(statements, statement) ==
  IF statement # <<>> THEN Append(statements, statement) ELSE statements

RECURSIVE SplitLoop(_, _, _)
SplitLoop(lines, buffer, statements) ==
  IF lines = <<>>
    THEN IF buffer # <<>>
           THEN AppendIfTruthy(statements, Leftover(buffer))
           ELSE statements
    ELSE LET raw_line == Head(lines)
             stripped == Strip(raw_line)
         IN IF stripped = <<>>
              THEN SplitLoop(Tail(lines), buffer, statements)
            ELSE IF StartsWith(stripped, CommentMarker)
              THEN SplitLoop(Tail(lines), buffer, statements)
            ELSE IF EndsWith(stripped, Semicolon)
              THEN SplitLoop(Tail(lines), <<>>,
                     AppendIfTruthy(statements,
                                    Terminated(Append(buffer, raw_line))))
            ELSE SplitLoop(Tail(lines), Append(buffer, raw_line), statements)

SplitSqlStatements(lines) == SplitLoop(lines, <<>>, <<>>)

Select1 == <<"S", "E", "L", "E", "C", "T", " ", "1">>
Select2 == <<"S", "E", "L", "E", "C", "T", " ", "2">>

SqlLineSet ==
  { Select1 \o Semicolon,
    Select2 \o Semicolon,
    <<"-", "-", " ", "c">>,
    <<" ", "-", "-", ";">>,
    <<>>,
    <<" ">>,
    <<";">>,
    <<" ", ";">>,
    <<"a">>,
    <<" ", "b", ";", " ">>,
    <<"c", ";", ";">> }

SplitInit ==
  /\ dirExists = FALSE /\ dirEntries = {}
  /\ fileStmts = [f \in SqlNames |-> 0]
  /\ MigInit /\ ProcInit /\ NoJobDir /\ BatchInit
  /\ MetaRest /\ ExecRest /\ RaceRest
  /\ sqlLines \in TextsOver(SqlLineSet)
  /\ splitResult = None

\* a caller invokes _split_sql_statements(sql)
SplitCall ==
  /\ splitResult = None
  /\ splitResult' = Some(SplitSqlStatements(sqlLines))
  /\ UNCHANGED <<sqlLines, metaVars, execVars, raceVars>>
  /\ UNCHANGED <<jobDirVars, auditRows, batchVars, batchHist>>
  /\ UNCHANGED <<dirVars, dbVars, txVars, migVars, histVars, schedVars,
                 procVars>>

SplitNext == SplitCall

SpecSplit == SplitInit /\ [][SplitNext]_vars

\* ------------------------------------------------ execute_sql_job by itself
\* " ".join(words)
RECURSIVE JoinWords(_)
JoinWords(ws) ==
  IF ws = <<>> THEN ""
  ELSE IF Len(ws) = 1 THEN ws[1]
  ELSE ws[1] \o " " \o JoinWords(Tail(ws))

\* The status tags a statement can complete with: a command, for INSERT the
\* oid field, and a row count that is absent, decimal or not decimal.
TagCommands ==
  { <<"INSERT", "0">>, <<"INSERT">>, <<"UPDATE">>, <<"DELETE">>,
    <<"SELECT">>, <<"REFRESH", "MATERIALIZED", "VIEW">>, <<"CALL">> }

TagCounts == { <<>>, <<"0">>, <<"3">>, <<"5">>, <<"many">> }

ExecOutcomes ==
  { [ok |-> TRUE, text |-> JoinWords(c \o n), words |-> c \o n] :
      c \in TagCommands, n \in TagCounts }
  \cup { [ok |-> FALSE, text |-> t, words |-> <<>>] :
           t \in {"relation does not exist", "connection is closed"} }

ExecDefinitions ==
  { [name |-> "pop_trend", job_type |-> t, object_name |-> "mv_population",
     refresh_sql |-> q, source_file |-> 1, description |-> None] :
      t \in {MvType, "table"},
      q \in {"REFRESH MATERIALIZED VIEW CONCURRENTLY mv_population",
             "INSERT INTO pop_trend SELECT * FROM pop"} }

ExecInit ==
  /\ dirExists = FALSE /\ dirEntries = {}
  /\ fileStmts = [f \in SqlNames |-> 0]
  /\ MigInit /\ ProcInit /\ NoJobDir /\ BatchInit
  /\ MetaRest /\ SplitRest /\ RaceRest
  /\ execArgs \in [definition : ExecDefinitions, outcome : ExecOutcomes]
  /\ execReturn = None

\* a caller awaits execute_sql_job(connection, definition)
ExecCall ==
  /\ execReturn = None
  /\ execReturn' = Some(ExecuteSqlJob(execArgs.definition, execArgs.outcome))
  /\ UNCHANGED <<execArgs, metaVars, splitVars, raceVars>>
  /\ UNCHANGED <<jobDirVars, auditRows, batchVars, batchHist>>
  /\ UNCHANGED <<dirVars, dbVars, txVars, migVars, histVars, schedVars,
                 procVars>>

ExecNext == ExecCall

SpecExec == ExecInit /\ [][ExecNext]_vars

\* ------------------------------------- the users of the pool, side by side
\* The pool is open and the SchedulerManager constructed with both
\* procedures configured; the migration directory holds one file of one
\* statement, the job directory two valid definitions. The applier, the
\* refresh batch and the maintenance invocations run interleaved.
ConnInit ==
  /\ dirExists = TRUE /\ dirEntries = {1}
  /\ fileStmts = [f \in SqlNames |-> IF f = 1 THEN 1 ELSE 0]
  /\ MigInit
  /\ sstate = "starting" /\ spos = 4 /\ poolOpen = TRUE
  /\ mgrCreated = TRUE /\ stateMgr = FALSE
  /\ procs = [id \in MaintIds |->
                IF id = "retention_maintenance"
                  THEN Some("purge_old")
                  ELSE Some("make_partitions")]
  /\ SchedRest
  /\ jobDirExists = TRUE /\ jobEntries = {1, 2}
  /\ jobMeta = [f \in JobNames |->
                 IF f \in {1, 2}
                   THEN Meta(Some("pop_trend"), Some("materialized_view"),
                             Some("mv_population"), None)
                   ELSE NoMeta]
  /\ loadResult = None
  /\ BatchInit /\ SideRest

\* Each user of the pool is started once: one applier run, one refresh
\* batch, one start of the scheduler, one firing of each maintenance trigger.
ConnApplierCall == applyResult = "none" /\ ApplierCall
ConnBatchCall == batchResult = "none" /\ BatchCall
ConnStart == ~schedRunning /\ CallStart
ConnFire(id) == id \notin fired /\ Fire(id)

ConnNext ==
  \/ ConnApplierCall
  \/ ApplyAcquire
  \/ EnsureMigrationsTable
  \/ ApplyNextFile
  \/ RunStmtOk
  \/ RunStmtFail
  \/ InsertTracking
  \/ CommitTx
  \/ ConnBatchCall
  \/ BatchAcquire
  \/ \E o \in Outcomes : BatchExecute(o)
  \/ BatchRecordOk
  \/ BatchRecordFail
  \/ ConnStart
  \/ \E id \in MaintIds : ConnFire(id)
  \/ \E id \in MaintIds : InvQuoteOk(id)
  \/ \E id \in MaintIds : InvQuoteFail(id)
  \/ \E id \in MaintIds, ok \in BOOLEAN : InvCall(id, ok)

SpecConn == ConnInit /\ [][ConnNext]_vars

\* ------------------------------ two apply_sql_directory runs on one store
\* Two processes start together and each runs apply_sql_directory, on its own
\* connection, against the same directory and the same store. runs[p] holds
\* the locals of run p and the state of its connection's open transaction.
\* A transaction sees what others have committed (read committed); its own
\* statements and tracking row stay private until it commits.
FileOf(p) == ListFiles[runs[p].fidx]

RaceOthers == UNCHANGED <<dirVars, txVars, migVars, histVars, schedVars,
                          procVars, jobDirVars, auditRows, batchVars,
                          batchHist, metaVars, splitVars, execVars>>

RaceInit ==
  /\ dirExists = TRUE
  /\ dirEntries \in {{1}, {1, 2}, {0, 2}}
  /\ fileStmts \in [SqlNames -> 0..2]
  /\ \A f \in SqlNames :
       IF f \in dirEntries THEN fileStmts[f] >= 1 ELSE fileStmts[f] = 0
  /\ MigInit /\ ProcInit /\ NoJobDir /\ BatchInit
  /\ MetaRest /\ SplitRest /\ ExecRest /\ RaceRest

\* sql_dir.exists(), sorted(...), `if not files`, pool.acquire()
RaceCall(p) ==
  /\ runs[p].pc = "idle" /\ runs[p].result = "none"
  /\ runs' = [runs EXCEPT ![p].pc = IF ListFiles = <<>> THEN "idle"
                                                         ELSE "ensure",
                          ![p].result = IF ListFiles = <<>> THEN "returned"
                                                            ELSE "none"]
  /\ UNCHANGED dbVars
  /\ RaceOthers

\* CREATE TABLE IF NOT EXISTS, outside a transaction
RaceEnsure(p) ==
  /\ runs[p].pc = "ensure"
  /\ tableExists' = TRUE
  /\ runs' = [runs EXCEPT ![p].pc = "check", ![p].fidx = 1]
  /\ UNCHANGED <<tracked, effects>>
  /\ RaceOthers

\* `for path in files`: the lookup of the tracking row, then `continue` or
\* `async with connection.transaction()`
RaceCheck(p) ==
  /\ runs[p].pc = "check"
  /\ IF runs[p].fidx > Len(ListFiles)
       THEN runs' = [runs EXCEPT ![p].pc = "idle", ![p].result = "returned"]
       ELSE IF tracked[FileOf(p)] >= 1
         THEN runs' = [runs EXCEPT ![p].fidx = @ + 1]
         ELSE runs' = [runs EXCEPT ![p].pc = "stmt", ![p].sidx = 0,
                                   ![p].txStmts = {}, ![p].txRow = FALSE]
  /\ UNCHANGED dbVars
  /\ RaceOthers

\* The exception leaves `async with connection.transaction()`, which rolls
\* the transaction back, and then the run.
RaceAbort(p, lost) ==
  runs' = [runs EXCEPT ![p].pc = "idle", ![p].result = "raised",
                       ![p].txStmts = {}, ![p].txRow = FALSE,
                       ![p].lostOn = IF lost THEN FileOf(p) ELSE 0]

RaceStmtOk(p) ==
  /\ runs[p].pc = "stmt" /\ runs[p].sidx < fileStmts[FileOf(p)]
  /\ runs' = [runs EXCEPT ![p].sidx = @ + 1,
                          ![p].txStmts = @ \cup {runs[p].sidx + 1}]
  /\ UNCHANGED dbVars
  /\ RaceOthers

RaceStmtFail(p) ==
  /\ runs[p].pc = "stmt" /\ runs[p].sidx < fileStmts[FileOf(p)]
  /\ RaceAbort(p, FALSE)
  /\ UNCHANGED dbVars
  /\ RaceOthers

\* Another open transaction has inserted the row of file f and not ended:
\* an insert of the same key waits for it.
RowPending(p, f) ==
  \E q \in DOMAIN runs \ {p} : runs[q].txRow /\ ListFiles[runs[q].fidx] = f

\* Variant: the tracking table without its primary key.
DuplicateKeyNever(f) == FALSE

\* filename TEXT PRIMARY KEY: a committed row of the same filename
DuplicateKey(f) == tracked[f] >= 1

\* INSERT INTO analytics_sql_migrations (filename) VALUES ($1)
RaceInsert(p) ==
  /\ runs[p].pc = "stmt" /\ runs[p].sidx = fileStmts[FileOf(p)]
  /\ ~RowPending(p, FileOf(p))
  /\ IF DuplicateKey(FileOf(p))
       THEN RaceAbort(p, TRUE)
       ELSE runs' = [runs EXCEPT ![p].pc = "commit", ![p].txRow = TRUE]
  /\ UNCHANGED dbVars
  /\ RaceOthers

\* the transaction block ends without an exception: commit
RaceCommit(p) ==
  /\ runs[p].pc = "commit"
  /\ effects' = [effects EXCEPT
                   ![FileOf(p)] = [i \in DOMAIN @ |->
                      IF i \in runs[p].txStmts THEN Bump(@[i]) ELSE @[i]]]
  /\ tracked' = [tracked EXCEPT ![FileOf(p)] = Bump(@)]
  /\ runs' = [runs EXCEPT ![p].pc = "check", ![p].fidx = @ + 1,
                          ![p].txStmts = {}, ![p].txRow = FALSE]
  /\ UNCHANGED tableExists
  /\ RaceOthers

RaceNext ==
  \/ \E p \in Appliers : RaceCall(p)
  \/ \E p \in Appliers : RaceEnsure(p)
  \/ \E p \in Appliers : RaceCheck(p)
  \/ \E p \in Appliers : RaceStmtOk(p)
  \/ \E p \in Appliers : RaceStmtFail(p)
  \/ \E p \in Appliers : RaceInsert(p)
  \/ \E p \in Appliers : RaceCommit(p)

SpecRace == RaceInit /\ [][RaceNext]_vars

\* ------------------------------------------------------------ properties
FullyCommitted(f) == \A i \in 1..fileStmts[f] : effects[f][i] >= 1
Untouched(f) == \A i \in 1..MaxStmts : effects[f][i] = 0
AllSqlApplied == dirExists => \A f \in SqlFiles : tracked[f] >= 1
ApplyPos == CHOOSE k \in 1..Len(StartupOrder) : StartupOrder[k] = "apply"

\* C1: after any sequence of apply_sql_directory runs, completed or aborted
\* on a failing statement, every filename has at most one tracking row and
\* every statement of every file has been committed at most once.
C1_AtMostOnce ==
  \A f \in SqlNames :
    /\ tracked[f] <= 1
    /\ \A i \in 1..MaxStmts : effects[f][i] <= 1

\* A file that failed in one run was applied by the next one.
C1_Witness ==
  /\ prevFailed # 0 /\ mpc = "idle" /\ applyResult = "returned"
  /\ tracked[prevFailed] = 1 /\ fileStmts[prevFailed] = MaxStmts

\* C2: a migration file is all-or-nothing.  In every state a file with a
\* tracking row has the effects of all its statements committed and a file
\* without one has none of them committed; and after a run in which a
\* statement of a file failed, that file has neither a tracking row nor any
\* committed effect.
C2_AllOrNothing ==
  /\ \A f \in SqlNames :
       \/ tracked[f] >= 1 /\ FullyCommitted(f)
       \/ tracked[f] = 0 /\ Untouched(f)
  /\ failedFile # 0 => tracked[failedFile] = 0 /\ Untouched(failedFile)

\* The second statement of a file failed after its first had been executed.
C2_Witness ==
  /\ failedFile # 0 /\ mpc = "idle" /\ sidx = 1
  /\ <<failedFile, 1>> \in executed /\ <<failedFile, 2>> \in executed

\* C3: when a statement of a file fails, the run raises to its caller, has
\* executed no statement of any file sorting after the failing one, and the
\* files it applied before stay recorded with their effects.
C3_HaltOnFailure ==
  failedFile # 0 =>
    /\ mpc = "idle" /\ applyResult = "raised" /\ ~connHeld
    /\ \A e \in executed : e[1] <= failedFile
    /\ \A f \in attempted : f <= failedFile
    /\ \A k \in 1..Len(appliedInRun) :
         /\ appliedInRun[k] < failedFile
         /\ tracked[appliedInRun[k]] = 1 /\ FullyCommitted(appliedInRun[k])

\* A run applied one file, failed in the next, and a later file exists.
C3_Witness ==
  /\ failedFile # 0 /\ Len(appliedInRun) >= 1
  /\ \E f \in SqlFiles : f > failedFile /\ fileStmts[f] >= 1

\* C4: a file whose application failed is retried by the next run: that run
\* skips exactly the files recorded before it without executing any of their
\* statements, its first transaction is for the file that failed, and when
\* it returns every file is recorded, the failed one and those after it
\* having been applied in filename order.
C4_RetryAfterFailure ==
  /\ \A f \in skipped :
       /\ dbAtStart.r[f] >= 1 /\ f \notin attempted
       /\ \A i \in 1..MaxStmts : <<f, i>> \notin executed
  /\ \A f \in attempted : dbAtStart.r[f] = 0
  /\ \A k \in 1..Len(files) :
       (k < fidx /\ dbAtStart.r[files[k]] >= 1) => files[k] \in skipped
  /\ prevFailed # 0 =>
       /\ attempted # {} => Min(attempted) = prevFailed
       /\ mpc = "idle" => prevFailed \in attempted
       /\ (mpc = "idle" /\ applyResult = "returned") =>
            /\ \A f \in SqlFiles : tracked[f] = 1
            /\ appliedInRun = Sorted({f \in SqlFiles : f >= prevFailed})

\* A retry skipped a recorded file and applied the failed one and a later one.
C4_Witness ==
  /\ prevFailed # 0 /\ mpc = "idle" /\ applyResult = "returned"
  /\ skipped # {} /\ Len(appliedInRun) >= 2

\* C5: a run that follows a fully successful run over the same directory
\* executes no statement, opens no transaction, inserts no tracking row,
\* does not raise, and leaves tracking table and schema as they were.
C5_SecondRunIdempotent ==
  prevResult = "returned" =>
    /\ executed = {} /\ attempted = {} /\ appliedInRun = <<>>
    /\ failedFile = 0 /\ applyResult # "raised"
    /\ ~inTx /\ ~txRow /\ txStmts = {}
    /\ tracked = dbAtStart.r /\ effects = dbAtStart.e
    /\ dirExists /\ SqlFiles # {} => tableExists = dbAtStart.t

\* The second run has gone through two recorded files and returned.
C5_Witness ==
  /\ prevResult = "returned" /\ applyResult = "returned" /\ mpc = "idle"
  /\ Cardinality(skipped) >= 2

\* C6: in a startup the applier has returned, with every migration file
\* applied, before the scheduler is started: no invocation of any trigger
\* begins while a file is unapplied or the applier is still running.
C6_MigrationsBeforeScheduler ==
  (schedRunning \/ fired # {} \/ \E id \in TriggerIds : inflight[id] > 0) =>
    /\ mpc = "idle" /\ applyResult = "returned" /\ ~connHeld /\ ~inTx
    /\ AllSqlApplied

\* A trigger fired in a process whose startup applied at least two files.
C6_Witness ==
  /\ fired # {} /\ Len(appliedInRun) >= 2

\* C7: when the applier raises, on_startup raises: no SchedulerManager is
\* created or started, no trigger is registered and no invocation begins in
\* that process.
C7_FailedMigrationHaltsStartup ==
  applyResult = "raised" =>
    /\ sstate \in {"in_apply", "failed", "down", "starting"}
    /\ sstate = "starting" => spos <= ApplyPos
    /\ ~mgrCreated /\ ~stateMgr /\ ~schedRunning
    /\ jobs = NoJobs /\ fired = {}
    /\ \A id \in TriggerIds : inflight[id] = 0

\* Startup failed on the second file after the first had been applied.
C7_Witness ==
  /\ sstate = "failed" /\ applyResult = "raised" /\ Len(appliedInRun) >= 1

\* Jobs of the current invocation whose execution and recording are over.
Processed == IF bpc = "record" THEN Len(results) - 1 ELSE Len(results)

\* The audit rows of jobs 1..k of the current invocation whose recording did
\* not fail, in execution order.
RECURSIVE RecordedRows(_)
RecordedRows(k) ==
  IF k = 0 THEN <<>>
  ELSE IF k \in recFailedAt THEN RecordedRows(k - 1)
  ELSE Append(RecordedRows(k - 1), AuditRow(results[k]))

\* C8: execute_sql_job never raises; whatever the statement does it returns
\* a result for its definition, and for a failing statement the result has
\* success = false, the error text as a non-empty message and
\* rows_affected = null.
C8_ExecutorNeverRaises ==
  /\ ~execRaised
  /\ bpc = "record" =>
       /\ curResult.definition = Some(definitions[didx])
       /\ curResult.success = lastOutcome.ok
       /\ ~lastOutcome.ok =>
            /\ curResult.message = Some(lastOutcome.text)
            /\ curResult.message[1] # ""
            /\ curResult.rows_affected = None
  /\ \A k \in 1..Len(results) :
       ~results[k].success =>
         /\ results[k].rows_affected = None
         /\ results[k].message # None /\ results[k].message[1] # ""

\* The executor has just returned the result of a failing statement.
C8_Witness ==
  /\ bpc = "record" /\ ~lastOutcome.ok /\ ~curResult.success

\* C9: one invocation of run_sql_refresh_jobs executes every loaded
\* definition exactly once, in the loader's filename order, whether the jobs
\* before it succeeded or failed, and never raises to its caller.
C9_BatchRunsEveryJobInOrder ==
  /\ batchResult # "raised"
  /\ Len(results) <= Len(definitions)
  /\ \A k \in 1..Len(results) : results[k].definition = Some(definitions[k])
  /\ \A j, k \in 1..Len(definitions) :
       j < k => definitions[j].source_file < definitions[k].source_file
  /\ bpc = "execute" => Len(results) = didx - 1
  /\ bpc = "record" => Len(results) = didx
  /\ (bpc = "idle" /\ batchResult = "returned") =>
       Len(results) = Len(definitions)

\* An invocation returned after a failed first job and a second job.
C9_Witness ==
  /\ bpc = "idle" /\ batchResult = "returned"
  /\ Len(results) >= 2 /\ ~results[1].success

\* C10: a failing record_job_result is swallowed: the invocation does not
\* raise, goes on to execute the remaining definitions, and the audit table
\* gains exactly the rows of the jobs whose recording did not fail.
C10_RecordFailureSwallowed ==
  /\ batchResult # "raised"
  /\ \A k \in recFailedAt : k <= Len(results)
  /\ (bpc = "idle" /\ batchResult = "returned") =>
       Len(results) = Len(definitions)
  /\ Len(auditRows) >= auditAtStart
  /\ SubSeq(auditRows, auditAtStart + 1, Len(auditRows))
       = RecordedRows(Processed)

\* Recording the first job failed; the second job was executed and recorded.
C10_Witness ==
  /\ bpc = "idle" /\ batchResult = "returned"
  /\ 1 \in recFailedAt /\ 2 \notin recFailedAt /\ Len(results) >= 2
  /\ Len(auditRows) > auditAtStart

\* C11: the audit table is append-only. A batch over n definitions whose
\* inserts all succeed adds exactly n rows, in execution order, row k carrying
\* the success flag and message of job k; no step of the program ever
\* changes or removes a row that is already there.
C11_AuditAppendOnly ==
  /\ [](  (bpc = "idle" /\ batchResult = "returned" /\ recFailedAt = {})
        => /\ Len(auditRows) = auditAtStart + Len(definitions)
           /\ Len(results) = Len(definitions)
           /\ \A k \in 1..Len(definitions) :
                /\ results[k].definition = Some(definitions[k])
                /\ auditRows[auditAtStart + k] = AuditRow(results[k])
                /\ auditRows[auditAtStart + k].success = results[k].success
                /\ auditRows[auditAtStart + k].message = results[k].message )
  /\ [][ /\ Len(auditRows') >= Len(auditRows)
         /\ SubSeq(auditRows', 1, Len(auditRows)) = auditRows ]_vars

\* A second batch over two definitions, one succeeding and one failing, has
\* returned with every insert done.
C11_Witness ==
  /\ bpc = "idle" /\ batchResult = "returned" /\ recFailedAt = {}
  /\ auditAtStart >= 1
  /\ Len(definitions) = 2 /\ Len(results) = 2
  /\ results[1].success # results[2].success

\* C12: after any number of start() calls the registered triggers are
\* exactly the three ids, none of them twice, and snapshot() returns exactly
\* three entries: a repeated start() replaces the triggers.
C12_ThreeTriggers ==
  lastCall = "start" =>
    /\ \A id \in TriggerIds : jobs[id] = 1
    /\ Cardinality(Snapshot) = 3
    /\ {e[1] : e \in Snapshot} = TriggerIds

\* start() was called on a manager whose scheduler was already running.
C12_Witness ==
  /\ lastCall = "start" /\ callRaised
  /\ Cardinality(Snapshot) = 3

\* C13 as stated: every firing of the refresh trigger runs the refresh job
\* batch, which reads the definitions through the Job Loader, executes each
\* and persists each outcome.
C13_RefreshFiringRunsBatch ==
  (RefreshId \in fired) =>
    /\ definitions = LoadSqlJobs
    /\ bpc # "idle" \/ batchResult # "none"
    /\ (invPc[RefreshId] = "idle" /\ invResult[RefreshId] = "returned")
         => Len(auditRows) >= Len(LoadSqlJobs)

\* C14: the scheduler goes stopped -> running -> stopped only through
\* start() and shutdown(); while it is stopped no trigger starts an
\* invocation; shutdown() returns whatever is in flight; shutdown() on a
\* scheduler that is not running changes nothing and raises nothing.
C14_Lifecycle ==
  /\ [][ schedRunning' # schedRunning
           => /\ calls' # calls
              /\ schedRunning' = (lastCall' = "start") ]_vars
  /\ [][ ~schedRunning
           => /\ fired' = fired
              /\ \A id \in TriggerIds : inflight'[id] <= inflight[id] ]_vars
  /\ [][ (calls' # calls /\ lastCall' = "shutdown")
           => /\ ~schedRunning' /\ ~callRaised'
              /\ ~schedRunning
                   => UNCHANGED <<jobs, inflight, fired, missed, invVars>>
         ]_vars

\* shutdown() has returned while an invocation is still in flight.
C14_Witness ==
  /\ lastCall = "shutdown" /\ ~schedRunning
  /\ \E id \in TriggerIds : inflight[id] > 0

\* C15 as stated: an invocation in flight when shutdown() is called is not
\* interrupted, and a refresh batch among them still records the outcomes
\* of its jobs.
C15_InFlightRunsToCompletion ==
  \A id \in atShutdown :
    /\ invResult[id] # "cancelled"
    /\ (id = RefreshId /\ invPc[id] = "idle")
         => Len(auditRows) >= Len(LoadSqlJobs)

\* C16 as stated: no firing is skipped because an invocation of the same id
\* is still running.
C16_NoFiringSkipped == missed = {}

\* C16, amended: at most MaxInstances (one) invocation of a trigger id is in
\* flight at any time; a firing is skipped only for an id that has fired.
C16_OneInstancePerTrigger ==
  /\ \A id \in TriggerIds : inflight[id] <= MaxInstances
  /\ missed \subseteq fired

\* A firing of the refresh trigger was skipped while its invocation and an
\* invocation of another id are in flight.
C16_Witness ==
  /\ RefreshId \in missed /\ inflight[RefreshId] = 1
  /\ \E id \in MaintIds : inflight[id] = 1

\* C17: without a configured name the maintenance trigger is still
\* registered and fires, and its invocation acquires no connection, issues
\* no statement and returns; with a name, the invocation issues at most one
\* CALL, without arguments, built from what quote_ident returned and only
\* after that query succeeded.
C17_MaintenanceProcedure ==
  \A id \in MaintIds :
    /\ lastCall = "start" => jobs[id] = 1
    /\ ~Truthy(procs[id])
         => /\ invPc[id] = "idle" /\ ~invConn[id] /\ inflight[id] = 0
            /\ invStmts[id] = <<>>
            /\ invResult[id] \in {"none", "returned"}
    /\ Truthy(procs[id])
         => LET st == invStmts[id]
                q == QuoteStatement(procs[id][1])
                c == CallStatement(QuoteIdent(procs[id][1]))
            IN /\ st \in {<<>>, <<q>>, <<q, c>>}
               /\ Len(st) = 2 => invQuoted[id] = QuoteIdent(procs[id][1])
               /\ invResult[id] = "returned" => st = <<q, c>>
               /\ invPc[id] = "call" => st = <<q>>

\* One maintenance trigger without a name has fired and returned; the other,
\* whose name needs quoting, has issued its CALL and returned.
C17_Witness ==
  \E a, b \in MaintIds :
    /\ ~Truthy(procs[a]) /\ a \in fired /\ invResult[a] = "returned"
    /\ procs[b] = Some("Purge; DROP TABLE t")
    /\ invResult[b] = "returned" /\ Len(invStmts[b]) = 2

\* The files of the directory that carry a loadable definition.
ValidFiles ==
  {f \in jobEntries :
     LET m == jobMeta[f] IN
       /\ Truthy(m.name) /\ Truthy(m.type) /\ Truthy(m.object)
       /\ m.type = Some(MvType) \/ Truthy(m.refresh_sql)}

\* C18: load_sql_jobs skips a file that lacks name, type or object, and a
\* file of another type than materialized_view that lacks refresh_sql; it
\* returns exactly the definitions of the remaining files, in the order of
\* their file names, each with non-empty name, job_type, object_name and
\* refresh_sql.
C18_LoaderSkipsInvalidFiles ==
  loadResult # None =>
    LET ds == loadResult[1] IN
      /\ {ds[i].source_file : i \in DOMAIN ds} = ValidFiles
      /\ \A i, j \in DOMAIN ds :
           i < j => ds[i].source_file < ds[j].source_file
      /\ \A i \in DOMAIN ds :
           LET m == jobMeta[ds[i].source_file] IN
             /\ ds[i].name # "" /\ ds[i].job_type # ""
             /\ ds[i].object_name # "" /\ ds[i].refresh_sql # ""
             /\ Some(ds[i].name) = m.name
             /\ Some(ds[i].job_type) = m.type
             /\ Some(ds[i].object_name) = m.object

\* A directory of two files was loaded: the first is skipped, the second
\* yields the only definition.
C18_Witness ==
  /\ loadResult # None /\ jobEntries = {1, 2}
  /\ Len(loadResult[1]) = 1 /\ loadResult[1][1].source_file = 2

\* C19: a materialized_view file with its required keys and no refresh_sql
\* yields refresh_sql = 'REFRESH MATERIALIZED VIEW CONCURRENTLY ' followed by
\* the object name as written; a refresh_sql given in the file is used
\* unchanged.
C19_DefaultRefreshStatement ==
  loadResult # None =>
    LET ds == loadResult[1] IN
      /\ \A f \in jobEntries :
           LET m == jobMeta[f] IN
             (/\ m.type = Some(MvType) /\ Truthy(m.name) /\ Truthy(m.object)
              /\ ~Truthy(m.refresh_sql))
             => \E i \in DOMAIN ds :
                  /\ ds[i].source_file = f
                  /\ ds[i].refresh_sql =
                       "REFRESH MATERIALIZED VIEW CONCURRENTLY " \o m.object[1]
      /\ \A i \in DOMAIN ds :
           LET m == jobMeta[ds[i].source_file] IN
             Truthy(m.refresh_sql) => Some(ds[i].refresh_sql) = m.refresh_sql

\* The load returned a materialized view on the default statement and a
\* materialized view with its own statement.
C19_Witness ==
  /\ loadResult # None /\ Len(loadResult[1]) = 2
  /\ jobMeta[1].type = Some(MvType) /\ jobMeta[1].refresh_sql = None
  /\ jobMeta[1].object = Some("Stats.\"Daily MV\"")
  /\ jobMeta[2].type = Some(MvType) /\ Truthy(jobMeta[2].refresh_sql)

BatchCalled == bpc # "idle" \/ batchResult # "none"

\* C20: a missing directory is not an error. apply_sql_directory on a
\* missing directory returns without acquiring a connection or executing
\* anything; load_sql_jobs on a missing directory returns no definition; a
\* refresh batch that finds no definition returns without acquiring a
\* connection or writing an audit row.
C20_MissingDirectoryNotFatal ==
  /\ (~dirExists /\ applyResult # "none")
       => /\ applyResult = "returned" /\ mpc = "idle" /\ ~connHeld
          /\ executed = {} /\ attempted = {}
          /\ [t |-> tableExists, r |-> tracked, e |-> effects] = dbAtStart
  /\ ~dirExists => (mpc = "idle" /\ ~connHeld /\ ~tableExists)
  /\ (~jobDirExists /\ BatchCalled) => definitions = <<>>
  /\ (BatchCalled /\ definitions = <<>>)
       => /\ batchResult = "returned" /\ bpc = "idle" /\ ~bconn
          /\ Len(auditRows) = auditAtStart /\ results = <<>>

\* Both were called without their directory and returned.
C20_Witness ==
  /\ ~dirExists /\ applyResult = "returned"
  /\ ~jobDirExists /\ batchResult = "returned" /\ definitions = <<>>

\* The leading block of comment lines of a text.
IsCommentLine(l) == StartsWith(Strip(l), CommentMarker)

RECURSIVE BlockLen(_)
BlockLen(lines) ==
  IF lines = <<>> \/ ~IsCommentLine(Head(lines))
    THEN 0
    ELSE 1 + BlockLen(Tail(lines))

Block(lines) == SubSeq(lines, 1, BlockLen(lines))

\* The parts of a comment line: what follows the marker, the key and value
\* of an @key line, the text of a |text line.
ContentOf(l) == Strip(Drop(Strip(l), 2))
IsKeyLine(l) == ContentOf(l) # <<>> /\ Head(ContentOf(l)) = "@"
KeyOf(l) ==
  LET r == Tail(ContentOf(l)) IN IF HasSpace(r) THEN BeforeSpace(r) ELSE r
ValueOf(l) ==
  LET r == Tail(ContentOf(l)) IN
    IF HasSpace(r) THEN Strip(AfterSpace(r)) ELSE <<>>
IsContinuation(l) == ContentOf(l) # <<>> /\ Head(ContentOf(l)) = "|"
TextOf(l) == LStrip(Tail(ContentOf(l)))

\* "\n" + text of every |text line among b[lo..hi], in order.
RECURSIVE Continuations(_, _, _)
Continuations(b, lo, hi) ==
  IF lo > hi THEN <<>>
  ELSE (IF IsContinuation(b[lo]) THEN <<"\n">> \o TextOf(b[lo]) ELSE <<>>)
       \o Continuations(b, lo + 1, hi)

\* The mapping the claim describes: each key of the block maps to the value
\* of its last @key line followed by the |text lines up to the next @key
\* line. emptyKeyActive tells whether a key with an empty name counts as
\* active.
ExpectedMeta(lines, emptyKeyActive) ==
  LET b == Block(lines)
      keyLines == {i \in DOMAIN b : IsKeyLine(b[i])}
      last(k) == CHOOSE j \in keyLines :
                   /\ KeyOf(b[j]) = k
                   /\ \A i \in keyLines : KeyOf(b[i]) = k => i <= j
      upto(j) == IF \E i \in keyLines : i > j
                   THEN Min({i \in keyLines : i > j}) - 1
                   ELSE Len(b)
  IN [k \in {KeyOf(b[i]) : i \in keyLines} |->
        ValueOf(b[last(k)])
          \o (IF k = <<>> /\ ~emptyKeyActive
                THEN <<>>
                ELSE Continuations(b, last(k) + 1, upto(last(k))))]

InsertAt(lines, p, l) ==
  SubSeq(lines, 1, p) \o <<l>> \o SubSeq(lines, p + 1, Len(lines))

BlankLines == {<<>>, <<" ">>}

\* C21 as stated: the result is the mapping described, with every key able
\* to take continuations, and does not change when a blank line is inserted
\* anywhere outside the comment block (before it or after it).
C21_BlankLinesAnywhereOutside ==
  metaResult # None =>
    /\ metaResult[1] = ExpectedMeta(metaLines, TRUE)
    /\ \A p \in {0} \cup (BlockLen(metaLines)..Len(metaLines)) :
         \A l \in BlankLines :
           ParseMetadata(InsertAt(metaLines, p, l)) = metaResult[1]

\* C21, amended: _parse_metadata reads only the leading block of comment
\* lines; an @key line sets the key to its trimmed value and makes it the
\* active key; a |text line appends "\n" and its left-trimmed text to the
\* active key and does nothing when no key is active or the active key has
\* an empty name; a blank line inserted at or after the end of the block
\* does not change the result.
C21_ParseMetadata ==
  metaResult # None =>
    /\ metaResult[1] = ExpectedMeta(metaLines, FALSE)
    /\ metaResult[1] = ParseMetadata(Block(metaLines))
    /\ \A p \in BlockLen(metaLines)..Len(metaLines) :
         \A l \in BlankLines :
           ParseMetadata(InsertAt(metaLines, p, l)) = metaResult[1]

\* An @key line followed by two |text lines was parsed, and the two |text
\* lines in the other order give another result.
C21_Witness ==
  /\ metaResult # None /\ Len(metaLines) = 3
  /\ IsKeyLine(metaLines[1])
  /\ IsContinuation(metaLines[2]) /\ IsContinuation(metaLines[3])
  /\ ParseMetadata(<<metaLines[1], metaLines[3], metaLines[2]>>)
       # metaResult[1]

\* The lines of a statement (a final line break ends the last line and opens
\* no further one), and the characters of a text that are neither whitespace
\* nor semicolons, in order.
RECURSIVE LinesOf(_)
LinesOf(st) ==
  IF st = <<>> THEN <<>>
  ELSE IF \E i \in DOMAIN st : st[i] = "\n"
    THEN LET i == Min({j \in DOMAIN st : st[j] = "\n"})
         IN <<SubSeq(st, 1, i - 1)>> \o LinesOf(SubSeq(st, i + 1, Len(st)))
    ELSE <<st>>

IsSignificant(c) == c \notin Whitespace \cup {";"}
Significant(s) == SelectSeq(s, IsSignificant)

RECURSIVE Flatten(_)
Flatten(ss) == IF ss = <<>> THEN <<>> ELSE Head(ss) \o Flatten(Tail(ss))

IsBlank(l) == Strip(l) = <<>>

IsCodeLine(l) == ~IsBlank(l) /\ ~IsCommentLine(l)
CodeLines(lines) == SelectSeq(lines, IsCodeLine)

\* C22: _split_sql_statements returns the statements in source order; no
\* returned statement is empty, contains a blank line, contains a line that
\* starts with the comment marker, or keeps its terminator; 'SELECT 1;',
\* a comment line, 'SELECT 2;' give exactly SELECT 1 and SELECT 2.
C22_SplitStatements ==
  splitResult # None =>
    LET r == splitResult[1] IN
      /\ Significant(Flatten(r)) = Significant(Flatten(CodeLines(sqlLines)))
      /\ \A i \in DOMAIN r :
           /\ r[i] # <<>>
           /\ r[i][Len(r[i])] # ";"
           /\ \A k \in DOMAIN LinesOf(r[i]) :
                /\ ~IsBlank(LinesOf(r[i])[k])
                /\ ~IsCommentLine(LinesOf(r[i])[k])
      /\ sqlLines = <<Select1 \o Semicolon, <<"-", "-", " ", "c">>,
                      Select2 \o Semicolon>>
           => r = <<Select1, Select2>>

\* The commands whose completion tag ends with a row count.
RowCountCommands ==
  {"INSERT", "UPDATE", "DELETE", "SELECT", "MERGE", "MOVE", "FETCH", "COPY"}

RowCountBearing(words) == words # <<>> /\ Head(words) \in RowCountCommands

\* C23: on success execute_sql_job returns the result tag as message and,
\* whenever the tag is that of a row-count-bearing command, the trailing
\* integer as rows_affected; a count that does not parse gives null and the
\* result is still a success.
C23_RowsAffected ==
  (execReturn # None /\ execArgs.outcome.ok) =>
    LET x == execReturn[1]
        w == execArgs.outcome.words
    IN /\ ~x.raised
       /\ x.result.success
       /\ x.result.message = Some(execArgs.outcome.text)
       /\ RowCountBearing(w) => x.result.rows_affected = IntOf(w[Len(w)])

\* C25: every apply_sql_directory run on an existing directory has ensured
\* the tracking table by the time it returns, also when the directory holds
\* no .sql file or every file is already applied.
C25_TableEnsuredOnReturn ==
  (dirExists /\ mpc = "idle" /\ applyResult = "returned") => tableExists

\* C26: after any sequence of runs, with any failures, the tracked filenames
\* are a prefix of the sorted file list, and within a run the files are
\* applied in strictly increasing order.
C26_TrackedIsPrefix ==
  /\ \E k \in 0..Cardinality(SqlFiles) :
       {f \in SqlNames : tracked[f] >= 1} = {Sorted(SqlFiles)[i] : i \in 1..k}
  /\ \A i, j \in DOMAIN appliedInRun :
       i < j => appliedInRun[i] < appliedInRun[j]

\* A run failed on its second file after applying the first, and a later run
\* has applied the remaining files of a three-file directory.
C26_Witness ==
  /\ Len(ListFiles) = 3
  /\ prevFailed = ListFiles[2]
  /\ appliedInRun = <<ListFiles[2], ListFiles[3]>>
  /\ \A f \in SqlFiles : tracked[f] >= 1

\* The users of the pool and the connection each one holds.
Holders == {"applier", "batch"} \cup MaintIds

ConnectionOf(h) ==
  CASE h = "applier" -> applyConnection
    [] h = "batch" -> batchConnection
    [] OTHER -> invConnection[h]

\* h is past its pool.acquire() and has not ended.
Working(h) ==
  CASE h = "applier" -> mpc \notin {"idle", "acquire"}
    [] h = "batch" -> bpc \notin {"idle", "acquire"}
    [] OTHER -> invPc[h] # "idle"

Ended(h) ==
  CASE h = "applier" -> mpc = "idle"
    [] h = "batch" -> bpc = "idle"
    [] OTHER -> invPc[h] = "idle"

\* C24: every invocation works on a connection it acquired itself; no
\* connection is held by two holders at the same time; a holder that has
\* ended, normally or with an error, holds no connection; and the refresh
\* batch keeps the one connection it acquired from its first job to its
\* last, also after a job failed.
C24_OwnConnection ==
  /\ [](\A h \in Holders :
          /\ Working(h) => ConnectionOf(h) \in Connections
          /\ Ended(h) => ConnectionOf(h) = 0
          /\ \A g \in Holders \ {h} :
               ConnectionOf(h) # 0 => ConnectionOf(g) # ConnectionOf(h))
  /\ [][(Working("batch") /\ bpc' \notin {"idle", "acquire"})
          => batchConnection' = batchConnection]_vars

\* The applier, both maintenance invocations and the refresh batch hold a
\* connection at the same time, the batch being at its second job after its
\* first job failed.
C24_Witness ==
  /\ \A h \in Holders : Working(h) /\ ConnectionOf(h) # 0
  /\ bpc = "execute" /\ didx = 2
  /\ Len(results) = 1 /\ ~results[1].success

\* C27: with two interleaved runs the effects of each statement of each file
\* are committed at most once and the tracking table holds at most one row
\* per filename; the run that loses the race on the tracking insert ends
\* with the error, its file transaction rolled back, the file having been
\* committed once by the other run.
C27_AtMostOnceUnderRace ==
  /\ \A f \in SqlNames :
       /\ tracked[f] <= 1
       /\ \A i \in 1..MaxStmts : effects[f][i] <= 1
  /\ \A p \in Appliers :
       runs[p].lostOn # 0 =>
         /\ runs[p].pc = "idle" /\ runs[p].result = "raised"
         /\ runs[p].txStmts = {} /\ ~runs[p].txRow
         /\ tracked[runs[p].lostOn] = 1
         /\ \A i \in 1..fileStmts[runs[p].lostOn] :
              effects[runs[p].lostOn][i] = 1

\* Both runs found the first file unapplied and executed its statements; one
\* committed, the other lost the race on the tracking insert.
C27_Witness ==
  \E p, q \in Appliers :
    /\ p # q
    /\ runs[p].lostOn = 1
    /\ runs[q].fidx >= 2 /\ runs[q].result # "raised"
    /\ tracked[1] = 1

====
